---- MODULE Spec2Model ----
(***************************************************************************)
(* Model of the frame-presentation timing loop of src/src/main.rs: the     *)
(* winit event callback of run() (Resized / RedrawRequested /              *)
(* CloseRequested), the busy-wait on the DXGI frame statistics, the two    *)
(* records pushed per frame, and the CSV export through                    *)
(* struct_to_dataframe! and write_df_csv.                                  *)
(*                                                                         *)
(* The display hardware and the clock are the environment: VBlank advances *)
(* the presentation counters, Tick advances the performance counter.  Time *)
(* is counted in 100 ns units (one QueryPerformanceCounter tick).          *)
(***************************************************************************)
EXTENDS Integers, Sequences, FiniteSets, TLC

\* src/src/main.rs:37 is `const COLLECT_FRAMES: i64 = 1000`; the model runs
\* the same comparison against a small budget.
COLLECT_FRAMES == 2

\* The variant with the external signal: the number of frames that are
\* signalled and the width of a frame marker in bytes.
SIGNAL_FRAMES == 2
SignalWidth == 4

\* Bounds of the model.
StartQPC == 1       \* reading of the performance counter at startup
MaxTime == 5        \* the clock is followed up to this reading
MaxJump == 2        \* largest advance of PresentCount in one vblank
MaxPresent == 3     \* the presentation counter is followed up to this value
MaxSize == 2        \* window sizes delivered by Resized are 0..MaxSize
MaxExports == 2     \* SpecExport: how often the export is run on one log
MaxLogFrames == 2   \* SpecExport: frames in the log handed to the export
MaxStamp == 1       \* SpecExport: timestamps and counts of that log

VARIABLES
    pc,              \* position of the single thread of control
    running_frame,   \* main.rs:145
    last_frame,      \* main.rs:146
    win_start,       \* main.rs:140
    cpu_start,       \* main.rs:143
    config,          \* main.rs:113 surface configuration (width, height)
    redraw_requested,\* a request_redraw() is outstanding
    present_stats,   \* main.rs:209 the sample held by the handler
    records,         \* main.rs:137
    df,              \* main.rs:243 the materialised table
    file,            \* example.csv: [exists, lines]
    exit_path,       \* which target.exit() ended the loop, or the panic
    now,             \* environment: performance counter
    hw,              \* environment: DXGI frame statistics of the swap chain
    count_at_present,\* history: hw.PresentCount when present() was called
    hw_at_poll,      \* history: hw.PresentCount when the last poll completed
    poll_jump,       \* history: advance of hw.PresentCount between the last two completed polls
    poll_diff,       \* history: PresentCount - last_frame as seen by the last completed poll
    exports,         \* history: the file contents each completed export left
    draws,           \* history: per presented frame, whether a draw was issued
    signal_writes    \* external channel: the frame markers written and flushed

vars == <<pc, running_frame, last_frame, win_start, cpu_start, config,
          redraw_requested, present_stats, records, df, file, exit_path,
          now, hw, count_at_present, hw_at_poll, poll_jump, poll_diff, exports,
          draws,
                   signal_writes>>

prog == <<pc, running_frame, last_frame, win_start, cpu_start, config,
          redraw_requested, present_stats, records, df, file, exit_path,
          count_at_present, hw_at_poll, poll_jump, poll_diff, exports, draws,
                   signal_writes>>

Max(a, b) == IF a >= b THEN a ELSE b

\* DXGI_FRAME_STATISTICS::default()
DefaultStats == [PresentCount |-> 0, PresentRefreshCount |-> 0, SyncQPCTime |-> 0]

\* get_frame_stats: the struct starts as default and GetFrameStatistics fills
\* it in; its HRESULT is dropped, so a failed call returns the default struct.
get_frame_stats(ok) == IF ok THEN hw ELSE DefaultStats

EmptyDf == [timestamp |-> <<>>, count |-> <<>>, event_type |-> <<>>]

NoFile == [exists |-> FALSE, lines |-> <<>>]

Running == pc \notin {"Terminated", "Aborted"}

Init ==
    /\ pc = "WaitDraw"
    /\ running_frame = 0
    /\ last_frame = 0
    /\ now = StartQPC
    /\ win_start = StartQPC
    /\ cpu_start = StartQPC
    /\ config = [width |-> 1, height |-> 1]
    /\ redraw_requested = TRUE
    /\ present_stats = DefaultStats
    /\ records = <<>>
    /\ df = EmptyDf
    /\ file = NoFile
    /\ exit_path = "none"
    /\ hw = DefaultStats
    /\ count_at_present = 0
    /\ hw_at_poll = 0
    /\ poll_jump = 0
    /\ poll_diff = 0
    /\ exports = <<>>
    /\ draws = <<>>
    /\ signal_writes = <<>>

\* Environment: the performance counter advances.
Tick ==
    /\ Running
    /\ now < MaxTime
    /\ now' = now + 1
    /\ UNCHANGED <<prog, hw>>

\* Environment: at a vertical blank the driver updates the frame statistics.
\* PresentCount is a running total kept by the system, not by this program:
\* it advances by 1..MaxJump whether or not the handler is waiting for it.
\* Two vblanks are distinct instants of the performance counter.
VBlank ==
    /\ Running
    /\ now > hw.SyncQPCTime
    /\ \E j \in 1..MaxJump : \E r \in 0..1 :
        /\ hw.PresentCount + j <= MaxPresent
        /\ hw' = [PresentCount |-> hw.PresentCount + j,
                  PresentRefreshCount |-> hw.PresentRefreshCount + j + r,
                  SyncQPCTime |-> now]
    /\ UNCHANGED <<prog, now>>

\* Variant of request_redraw: the next redraw is not requested.
request_redraw_omitted == FALSE

\* window.request_redraw(): a RedrawRequested will be delivered.
request_redraw == TRUE

\* Variant of Resized: reconfiguring the surface also restarts the poller's
\* reference count.
Resized_resets ==
    /\ pc = "WaitDraw"
    /\ \E w \in 0..MaxSize : \E h \in 0..MaxSize :
        config' = [width |-> Max(w, 1), height |-> Max(h, 1)]
    /\ redraw_requested' = request_redraw
    /\ last_frame' = 0
    /\ UNCHANGED <<pc, running_frame, win_start, cpu_start,
                   present_stats, records, df, file, exit_path, now, hw,
                   count_at_present, hw_at_poll, poll_jump, poll_diff, exports,
                   draws,
                   signal_writes>>

\* WindowEvent::Resized
Resized ==
    /\ pc = "WaitDraw"
    /\ \E w \in 0..MaxSize : \E h \in 0..MaxSize :
        config' = [width |-> Max(w, 1), height |-> Max(h, 1)]
    /\ redraw_requested' = request_redraw
    /\ UNCHANGED <<pc, running_frame, last_frame, win_start, cpu_start,
                   present_stats, records, df, file, exit_path, now, hw,
                   count_at_present, hw_at_poll, poll_jump, poll_diff, exports,
                   draws,
                   signal_writes>>

\* Variant of DrawIssued: the draw is issued on every frame.
DrawIssued_always(rf) == TRUE

\* if running_frame % 2 == 0 { rpass.draw(0..6, 0..1) }
DrawIssued(rf) == rf % 2 = 0

\* WindowEvent::RedrawRequested, up to the busy wait: acquire the frame
\* (get_current_texture().expect panics on an error), encode the pass with
\* the duty cycle, submit, present, request the next redraw.  Acquiring,
\* encoding and submitting a frame takes at least one tick of the clock, so
\* two iterations never read the same cpu time.
RedrawRequestedWith(acquired) ==
    /\ pc = "WaitDraw"
    /\ redraw_requested
    /\  IF acquired
        THEN /\ now < MaxTime
             /\ now' = now + 1
             /\ draws' = Append(draws, DrawIssued(running_frame))
             /\ count_at_present' = hw.PresentCount
             /\ redraw_requested' = request_redraw
             /\ pc' = "Poll"
             /\ UNCHANGED exit_path
        ELSE /\ pc' = "Aborted"
             /\ exit_path' = "panic_surface"
             /\ UNCHANGED <<now, draws, count_at_present, redraw_requested>>
    /\ UNCHANGED <<running_frame, last_frame, win_start, cpu_start, config,
                   present_stats, records, df, file, hw, hw_at_poll,
                   poll_jump, poll_diff, exports, signal_writes>>

RedrawRequested == \E acquired \in BOOLEAN : RedrawRequestedWith(acquired)

\* Variant of StillWaiting: the busy wait is left after the first sample.
StillWaiting_never(s, lf) == FALSE

\* while present_stats.PresentCount == last_frame
StillWaiting(s, lf) == s.PresentCount = lf

\* One get_frame_stats call of the busy wait (the call before the loop and
\* the calls inside it), the loop test, and `last_frame = PresentCount` once
\* the loop is left.
Poll ==
    /\ pc = "Poll"
    /\ \E ok \in BOOLEAN :
        LET s == get_frame_stats(ok) IN
        /\ present_stats' = s
        /\ IF StillWaiting(s, last_frame)
           THEN UNCHANGED <<pc, last_frame, hw_at_poll, poll_jump, poll_diff>>
           ELSE /\ pc' = "Correlate"
                /\ last_frame' = s.PresentCount
                /\ poll_diff' = s.PresentCount - last_frame
                /\ poll_jump' = hw.PresentCount - hw_at_poll
                /\ hw_at_poll' = hw.PresentCount
    /\ UNCHANGED <<running_frame, win_start, cpu_start, config,
                   redraw_requested, records, df, file, exit_path, now, hw,
                   count_at_present, exports, draws,
                   signal_writes>>

\* cpu_start.elapsed().as_nanos() / 100
cpu_elapsed == ((now - cpu_start) * 100) \div 100

\* Variant of PushRecords: the cpu record takes its count from the present
\* counter instead of the refresh counter of the sample.
PushRecords_other_count(log, fs_timestamp, cpu_timestamp, stats) ==
    log \o << [timestamp |-> fs_timestamp,
               count |-> stats.PresentRefreshCount,
               event_type |-> "sync_qpc_time"],
              [timestamp |-> cpu_timestamp,
               count |-> stats.PresentCount + 1,
               event_type |-> "cpu_time"] >>

\* Variant of PushRecords: the new pair is put in front of the log.
PushRecords_prepend(log, fs_timestamp, cpu_timestamp, stats) ==
    << [timestamp |-> fs_timestamp,
        count |-> stats.PresentRefreshCount,
        event_type |-> "sync_qpc_time"],
       [timestamp |-> cpu_timestamp,
        count |-> stats.PresentRefreshCount,
        event_type |-> "cpu_time"] >> \o log

\* The two records.lock().unwrap().push(..) calls.
PushRecords(log, fs_timestamp, cpu_timestamp, stats) ==
    log \o << [timestamp |-> fs_timestamp,
               count |-> stats.PresentRefreshCount,
               event_type |-> "sync_qpc_time"],
              [timestamp |-> cpu_timestamp,
               count |-> stats.PresentRefreshCount,
               event_type |-> "cpu_time"] >>

\* Variant of BudgetExceeded: the comparison starts the export one frame early.
BudgetExceeded_ge(rf) == rf >= COLLECT_FRAMES

\* if running_frame > COLLECT_FRAMES
BudgetExceeded(rf) == rf > COLLECT_FRAMES

\* Variant of AdvanceFrame: the frame counter is advanced twice.
AdvanceFrame_by_two(rf) == rf + 2

\* running_frame = running_frame + 1
AdvanceFrame(rf) == rf + 1

\* The rest of the iteration: both timestamps, the two records, the frame
\* counter and the budget test.
Record ==
    /\ pc = "Correlate"
    /\ LET fs_timestamp == present_stats.SyncQPCTime - win_start
           cpu_timestamp == cpu_elapsed
       IN records' = PushRecords(records, fs_timestamp, cpu_timestamp, present_stats)
    /\ running_frame' = AdvanceFrame(running_frame)
    /\ pc' = IF BudgetExceeded(running_frame') THEN "Exporting" ELSE "WaitDraw"
    /\ UNCHANGED <<last_frame, win_start, cpu_start, config, redraw_requested,
                   present_stats, df, file, exit_path, now, hw,
                   count_at_present, hw_at_poll, poll_jump, poll_diff, exports,
                   draws,
                   signal_writes>>

\* struct_to_dataframe!(input, [timestamp, count, event_type]): one column
\* per field, filled in the order of the input.
StructToDataframe(input) ==
    [timestamp |-> [i \in 1..Len(input) |-> input[i].timestamp],
     count |-> [i \in 1..Len(input) |-> input[i].count],
     event_type |-> [i \in 1..Len(input) |-> input[i].event_type]]

\* The export block builds the table from a clone of the record log.
Materialize ==
    /\ pc = "Exporting"
    /\ df' = StructToDataframe(records)
    /\ pc' = "Create"
    /\ UNCHANGED <<running_frame, last_frame, win_start, cpu_start, config,
                   redraw_requested, present_stats, records, file, exit_path,
                   now, hw, count_at_present, hw_at_poll, poll_jump, poll_diff,
                   exports, draws,
                   signal_writes>>

\* Variant of FileCreate: the file is opened without being truncated.
FileCreate_append(f) == [exists |-> TRUE, lines |-> f.lines]

\* File::create: the file exists afterwards and is empty.
FileCreate(f) == [exists |-> TRUE, lines |-> <<>>]

\* write_df_csv, first half: File::create("example.csv").expect(..)
ExportCreateWith(ok) ==
    /\ pc = "Create"
    /\  IF ok
        THEN /\ file' = FileCreate(file)
             /\ pc' = "Write"
             /\ UNCHANGED exit_path
        ELSE /\ pc' = "Aborted"
             /\ exit_path' = "panic_create"
             /\ UNCHANGED file
    /\ UNCHANGED <<running_frame, last_frame, win_start, cpu_start, config,
                   redraw_requested, present_stats, records, df, now, hw,
                   count_at_present, hw_at_poll, poll_jump, poll_diff, exports,
                   draws,
                   signal_writes>>

ExportCreate == \E ok \in BOOLEAN : ExportCreateWith(ok)

\* CsvWriter with include_header(true): the header line, then one line per
\* row of the table, fields in column order.
CsvLines(d) ==
    << <<"timestamp", "count", "event_type">> >> \o
    [i \in 1..Len(d.timestamp) |-> <<d.timestamp[i], d.count[i], d.event_type[i]>>]

\* Variant of target_exit: the exit request has no effect on the loop.
target_exit_ignored == "WaitDraw"

\* target.exit(): the event loop ends and delivers no further notification.
target_exit == "Terminated"

\* write_df_csv, second half: CsvWriter::finish, whose error the caller
\* unwraps, and then target.exit(). A failed write leaves the lines already
\* written.
ExportWriteUpTo(k) ==
    /\ pc = "Write"
    /\ LET lines == CsvLines(df) IN
        /\ k \in 0..Len(lines)
        /\ file' = [file EXCEPT !.lines = @ \o SubSeq(lines, 1, k)]
        /\ IF k = Len(lines)
           THEN /\ pc' = target_exit
                /\ exit_path' = "budget"
                /\ exports' = Append(exports, file'.lines)
           ELSE /\ pc' = "Aborted"
                /\ exit_path' = "panic_write"
                /\ UNCHANGED exports
    /\ UNCHANGED <<running_frame, last_frame, win_start, cpu_start, config,
                   redraw_requested, present_stats, records, df, now, hw,
                   count_at_present, hw_at_poll, poll_jump, poll_diff, draws,
                   signal_writes>>

ExportWrite == \E k \in 0..Len(CsvLines(df)) : ExportWriteUpTo(k)

\* Variant of CloseRequested: the close path runs the export block.
CloseRequested_exporting ==
    /\ pc = "WaitDraw"
    /\ pc' = "Exporting"
    /\ exit_path' = "close"
    /\ UNCHANGED <<running_frame, last_frame, win_start, cpu_start, config,
                   redraw_requested, present_stats, records, df, file, now, hw,
                   count_at_present, hw_at_poll, poll_jump, poll_diff, exports,
                   draws,
                   signal_writes>>

\* WindowEvent::CloseRequested => target.exit()
CloseRequested ==
    /\ pc = "WaitDraw"
    /\ pc' = target_exit
    /\ exit_path' = "close"
    /\ UNCHANGED <<running_frame, last_frame, win_start, cpu_start, config,
                   redraw_requested, present_stats, records, df, file, now, hw,
                   count_at_present, hw_at_poll, poll_jump, poll_diff, exports,
                   draws,
                   signal_writes>>

Next ==
    \/ Tick
    \/ VBlank
    \/ Resized
    \/ RedrawRequested
    \/ Poll
    \/ Record
    \/ Materialize
    \/ ExportCreate
    \/ ExportWrite
    \/ CloseRequested

Spec == Init /\ [][Next]_vars

(***************************************************************************)
(* The variant with the external signal channel.  The source file has the  *)
(* serial port commented out (main.rs:129-135); the write is modelled from *)
(* the design: after the records of one of the first SIGNAL_FRAMES frames  *)
(* are taken, running_frame + 1 is written big-endian and flushed, and a   *)
(* failed write or flush aborts the run.                                   *)
(***************************************************************************)
RECURSIVE Pow256(_)
Pow256(n) == IF n = 0 THEN 1 ELSE 256 * Pow256(n - 1)

\* Fixed-width big-endian bytes of v.
BigEndian(v, width) == [i \in 1..width |-> (v \div Pow256(width - i)) % 256]

RECURSIVE FromBigEndian(_)
FromBigEndian(bytes) ==
    IF bytes = <<>> THEN 0
    ELSE 256 * FromBigEndian(SubSeq(bytes, 1, Len(bytes) - 1)) + bytes[Len(bytes)]

\* Record, followed by the signal step of the first SIGNAL_FRAMES frames.
RecordSignal ==
    /\ pc = "Correlate"
    /\ LET fs_timestamp == present_stats.SyncQPCTime - win_start
           cpu_timestamp == cpu_elapsed
       IN records' = PushRecords(records, fs_timestamp, cpu_timestamp, present_stats)
    /\ \E sent \in BOOLEAN :
        IF running_frame < SIGNAL_FRAMES /\ ~sent
        THEN /\ pc' = "Aborted"
             /\ exit_path' = "panic_signal"
             /\ UNCHANGED <<running_frame, signal_writes>>
        ELSE /\ signal_writes' =
                    IF running_frame < SIGNAL_FRAMES
                    THEN Append(signal_writes,
                                [bytes |-> BigEndian(running_frame + 1, SignalWidth),
                                 flushed |-> TRUE,
                                 polls |-> Len(records') \div 2])
                    ELSE signal_writes
             /\ running_frame' = AdvanceFrame(running_frame)
             /\ pc' = IF BudgetExceeded(running_frame') THEN "Exporting" ELSE "WaitDraw"
             /\ UNCHANGED exit_path
    /\ UNCHANGED <<last_frame, win_start, cpu_start, config, redraw_requested,
                   present_stats, df, file, now, hw, count_at_present,
                   hw_at_poll, poll_jump, poll_diff, exports, draws>>

NextSignal ==
    \/ Tick
    \/ VBlank
    \/ Resized
    \/ RedrawRequested
    \/ Poll
    \/ RecordSignal
    \/ Materialize
    \/ ExportCreate
    \/ ExportWrite
    \/ CloseRequested

SpecSignal == Init /\ [][NextSignal]_vars

(***************************************************************************)
(* The run without acquisition failures, export failures and close         *)
(* requests, under fairness: the thread of control keeps running, a        *)
(* requested redraw is delivered, and the display presents while the       *)
(* handler waits.  The clock and the presentation counter are followed     *)
(* only up to MaxTime and MaxPresent; here they leave room for the frames  *)
(* still to be captured, so that the run is never stopped by a bound.      *)
(***************************************************************************)
FramesToPresent == COLLECT_FRAMES + 1 - Len(draws)

PollsToComplete ==
    COLLECT_FRAMES + 1 - running_frame - (IF pc = "Correlate" THEN 1 ELSE 0)

TickLive ==
    /\ now + Max(FramesToPresent, 0) < MaxTime
    /\ Tick

VBlankLive ==
    /\ Running
    /\ now > hw.SyncQPCTime
    /\ \E j \in 1..MaxJump : \E r \in 0..1 :
        /\ hw.PresentCount + j + Max(PollsToComplete - 1, 0) <= MaxPresent
        /\ hw' = [PresentCount |-> hw.PresentCount + j,
                  PresentRefreshCount |-> hw.PresentRefreshCount + j + r,
                  SyncQPCTime |-> now]
    /\ UNCHANGED <<prog, now>>

ExportWriteFull == ExportWriteUpTo(Len(CsvLines(df)))

NextLive ==
    \/ TickLive
    \/ VBlankLive
    \/ Resized
    \/ RedrawRequestedWith(TRUE)
    \/ Poll
    \/ Record
    \/ Materialize
    \/ ExportCreateWith(TRUE)
    \/ ExportWriteFull

Fairness ==
    /\ WF_vars(RedrawRequestedWith(TRUE))
    /\ WF_vars(pc = "Poll" /\ VBlankLive)
    /\ WF_vars(Poll)
    /\ WF_vars(Record)
    /\ WF_vars(Materialize)
    /\ WF_vars(ExportCreateWith(TRUE))
    /\ WF_vars(ExportWriteFull)

SpecLive == Init /\ [][NextLive]_vars /\ Fairness

(***************************************************************************)
(* The export on its own: the export block of run() applied, once or       *)
(* again, to a record log drawn from the logs the capture can build.       *)
(***************************************************************************)
Stamps == 0..MaxStamp

FrameSamples == [fs : Stamps, cpu : Stamps, count : Stamps]

RECURSIVE LogOf(_)
LogOf(frames) ==
    IF frames = <<>> THEN <<>>
    ELSE PushRecords(LogOf(SubSeq(frames, 1, Len(frames) - 1)),
                     frames[Len(frames)].fs, frames[Len(frames)].cpu,
                     [PresentCount |-> 0,
                      PresentRefreshCount |-> frames[Len(frames)].count,
                      SyncQPCTime |-> 0])

FrameSeqs == UNION {[1..n -> FrameSamples] : n \in 1..MaxLogFrames}

InitExport ==
    /\ pc = "Exporting"
    /\ \E fr \in FrameSeqs : records = LogOf(fr)
    /\ running_frame = Len(records) \div 2
    /\ last_frame = 0
    /\ now = StartQPC
    /\ win_start = StartQPC
    /\ cpu_start = StartQPC
    /\ config = [width |-> 1, height |-> 1]
    /\ redraw_requested = TRUE
    /\ present_stats = DefaultStats
    /\ df = EmptyDf
    /\ file = NoFile
    /\ exit_path = "none"
    /\ hw = DefaultStats
    /\ count_at_present = 0
    /\ hw_at_poll = 0
    /\ poll_jump = 0
    /\ poll_diff = 0
    /\ exports = <<>>
    /\ draws = <<>>
    /\ signal_writes = <<>>

\* The export block is entered again with the same record log.
RunExportAgain ==
    /\ pc = "Terminated"
    /\ exit_path = "budget"
    /\ Len(exports) < MaxExports
    /\ pc' = "Exporting"
    /\ UNCHANGED <<running_frame, last_frame, win_start, cpu_start, config,
                   redraw_requested, present_stats, records, df, file,
                   exit_path, now, hw, count_at_present, hw_at_poll, poll_jump,
                   poll_diff, exports, draws,
                   signal_writes>>

NextExport ==
    \/ Materialize
    \/ ExportCreate
    \/ ExportWrite
    \/ RunExportAgain

SpecExport == InitExport /\ [][NextExport]_vars

(***************************************************************************)
(* Claims                                                                  *)
(***************************************************************************)

\* The table a log is expected to give: the header line, then one line per
\* record in log order, fields in the order timestamp, count, event_type.
ExpectedTable(log) ==
    << <<"timestamp", "count", "event_type">> >> \o
    [i \in 1..Len(log) |-> <<log[i].timestamp, log[i].count, log[i].event_type>>]

InExport == pc \in {"Exporting", "Create", "Write"}

\* C1: when the export is reached through the frame budget, the record log
\* holds exactly 2 * COLLECT_FRAMES records.
C1_ExactlyTwoPerBudgetFrame ==
    (InExport \/ exit_path = "budget") => Len(records) = 2 * COLLECT_FRAMES

\* C2: a failure to acquire the frame on RedrawRequested does not interrupt
\* the capture: the run is never ended by it.
C2_SurfaceFailureDoesNotInterrupt ==
    ~(pc = "Aborted" /\ exit_path = "panic_surface")

\* C3: consecutive records of the same event type have strictly increasing
\* timestamps.
C3_TimestampsStrictlyIncreasing ==
    \A i \in 1..Len(records) : \A j \in 1..Len(records) :
        ( /\ i < j
          /\ records[i].event_type = records[j].event_type
          /\ \A k \in (i+1)..(j-1) : records[k].event_type # records[i].event_type )
        => records[j].timestamp > records[i].timestamp

\* C4: the record log is a sequence of adjacent pairs, a sync_qpc_time
\* (hardware time) record immediately followed by a cpu_time record with the
\* same count, and that count is the refresh count of the sample the
\* iteration polled.
C4_AdjacentPairs ==
    /\ Len(records) % 2 = 0
    /\ \A k \in 1..(Len(records) \div 2) :
        /\ records[2*k - 1].event_type = "sync_qpc_time"
        /\ records[2*k].event_type = "cpu_time"
        /\ records[2*k - 1].count = records[2*k].count
    /\ (records # <<>> /\ pc \notin {"Poll", "Correlate"} /\ draws # <<>>)
        => records[Len(records)].count = present_stats.PresentRefreshCount

C4_Witness ==
    /\ Len(records) >= 4
    /\ records[1].count # records[3].count
    /\ records[2].count # 0

\* C5: the export is started only once running_frame exceeds the budget,
\* no capture iteration follows once it does, and the exit of the budget
\* path is issued only after the export has written the complete table.
C5_ExportBeforeExit ==
    /\ InExport => running_frame > COLLECT_FRAMES
    /\ running_frame > COLLECT_FRAMES => pc \notin {"WaitDraw", "Poll", "Correlate"}
    /\ exit_path = "budget" =>
        /\ running_frame > COLLECT_FRAMES
        /\ file.exists
        /\ file.lines = ExpectedTable(records)
        /\ exports = <<file.lines>>

C5_Witness == pc = "Terminated" /\ exit_path = "budget"

\* C6: a handled CloseRequested ends the loop without any export: no table
\* is built and no output file is created or written.
C6_CloseNoExport ==
    exit_path = "close" =>
        /\ pc = "Terminated"
        /\ df = EmptyDf
        /\ ~file.exists
        /\ exports = <<>>

C6_Witness == exit_path = "close" /\ pc = "Terminated" /\ Len(records) >= 2

\* C7: in every outcome of the run, an output file exists only if the full
\* budget completed and the file holds the complete table.
C7_ExportAllOrNothing ==
    (~Running /\ file.exists) =>
        /\ running_frame > COLLECT_FRAMES
        /\ file.lines = ExpectedTable(records)

\* C8: the sample an iteration records shows a presentation-counter advance
\* that happened after that iteration's present call.
C8_SampleAfterPresent ==
    pc = "Correlate" => present_stats.PresentCount > count_at_present

\* C9: when the presentation counter advanced by more than 1 between two
\* consecutive completed polls, the poll saw exactly that advance (so the
\* missed-frame count, advance - 1, is available) and last_frame is the
\* value the counter jumped to.
C9_JumpReportedAndResynced ==
    poll_jump > 1 => (poll_diff = poll_jump /\ last_frame = hw_at_poll)

\* C10: every run of the export on the same log leaves the same output, the
\* header and one line per record in log order with the fields in the order
\* timestamp, count, event_type, and the export leaves the log unchanged.
C10_ExportIdempotent ==
    /\ [](\A i \in 1..Len(exports) : exports[i] = ExpectedTable(records))
    /\ [][records' = records]_vars

C10_Witness ==
    /\ Len(exports) = 2
    /\ Len(records) >= 4
    /\ pc = "Terminated"

\* C12: the k-th presented frame (running_frame = k - 1 when its iteration
\* starts) carries a draw exactly when k - 1 is even: draw, skip, draw, ...
C12_DutyCycle ==
    /\ \A k \in 1..Len(draws) : draws[k] = ((k - 1) % 2 = 0)
    /\ \A k \in 1..(Len(draws) - 1) : draws[k + 1] # draws[k]
    /\ (pc \in {"Poll", "Correlate"}) => Len(draws) = running_frame + 1

C12_Witness == Len(draws) >= 3 /\ pc = "Poll"

PollCompleted == records # <<>> \/ pc = "Correlate"

\* C13: a completed poll holds a sample whose PresentCount differs from the
\* value last_frame had before it (0 before the first poll, the previous
\* sample's PresentCount afterwards), and last_frame is that sample's
\* PresentCount.
C13_PollReturnsChangedCount ==
    (PollCompleted /\ pc # "Poll") =>
        /\ poll_diff # 0
        /\ last_frame = present_stats.PresentCount
        /\ (Len(records) <= 2 /\ Len(draws) = 1) => present_stats.PresentCount # 0

C13_Witness ==
    /\ pc = "Correlate"
    /\ Len(draws) = 2
    /\ Len(records) = 2
    /\ poll_diff = 1
    /\ last_frame = 2

\* C14: while the handler is in the busy wait nothing else happens (no
\* record, no frame advance, no resize, no exit), and as long as the
\* presentation counter stays at the value last polled the handler stays
\* in the busy wait.
C14_PollBlocksUntilCounterAdvances ==
    [][ pc = "Poll" =>
          /\ pc' \in {"Poll", "Correlate"}
          /\ records' = records
          /\ running_frame' = running_frame
          /\ config' = config
          /\ exit_path' = exit_path
          /\ file' = file
          /\ (hw.PresentCount = last_frame /\ hw' = hw) => pc' = "Poll" ]_vars

\* C16: once the budget path has exported and exited, nothing follows: the
\* outstanding redraw request starts no iteration, no record is appended
\* and the export has run exactly once.
C16_TerminatedIsTerminal ==
    /\ [](exit_path = "budget" =>
            /\ pc = "Terminated"
            /\ redraw_requested
            /\ Len(exports) = 1
            /\ Len(draws) = running_frame
            /\ 2 * Len(draws) = Len(records))
    /\ [][pc = "Terminated" => UNCHANGED vars]_vars

C16_Witness ==
    /\ exit_path = "budget"
    /\ redraw_requested
    /\ Len(exports) = 1

\* C17: every step leaves the previous record log as a prefix of the new
\* one.
C17_AppendOnly ==
    [][ /\ Len(records') >= Len(records)
        /\ SubSeq(records', 1, Len(records)) = records ]_vars

C17_Witness ==
    /\ exit_path = "budget"
    /\ Len(records) >= 4
    /\ records[1] # records[3]

\* C18: a step that changes the surface configuration (only Resized does)
\* leaves running_frame, last_frame, the start references and the record
\* log unchanged, does not export or exit, and leaves a redraw requested;
\* the configured size is at least 1 x 1.
C18_ResizeFrame ==
    /\ [](config.width >= 1 /\ config.height >= 1)
    /\ [][ config' # config =>
              /\ running_frame' = running_frame
              /\ last_frame' = last_frame
              /\ win_start' = win_start
              /\ cpu_start' = cpu_start
              /\ records' = records
              /\ file' = file
              /\ exports' = exports
              /\ pc = "WaitDraw" /\ pc' = "WaitDraw"
              /\ exit_path' = exit_path
              /\ redraw_requested' ]_vars

C18_Witness ==
    /\ config = [width |-> 2, height |-> 1]
    /\ running_frame >= 1
    /\ pc = "WaitDraw"

\* C19: outside a capture iteration the log holds two records per counted
\* frame; running_frame never exceeds the budget plus one, and a step
\* changes it only by completing an iteration, by exactly one.
C19_LogMatchesFrameIndex ==
    /\ [](pc \notin {"Poll", "Correlate"} => Len(records) = 2 * running_frame)
    /\ [](running_frame \in 0..(COLLECT_FRAMES + 1))
    /\ [][ /\ running_frame' \in {running_frame, running_frame + 1}
           /\ (running_frame' = running_frame + 1) <=>
                 (pc = "Correlate" /\ pc' # "Correlate") ]_vars

C19_Witness ==
    /\ running_frame = COLLECT_FRAMES + 1
    /\ Len(records) = 2 * running_frame
    /\ pc = "Terminated"

\* C11: the writes to the external channel are the markers 1, 2, ... in that
\* order, each of the fixed width and flushed, never more than
\* SIGNAL_FRAMES; the write of marker k happens after the k-th and so
\* strictly before the (k+1)-th poll completion; and once the run is past
\* its first SIGNAL_FRAMES frames, and so when it exports, there are
\* exactly SIGNAL_FRAMES writes.
C11_SignalWrites ==
    /\ Len(signal_writes) <= SIGNAL_FRAMES
    /\ \A k \in 1..Len(signal_writes) :
        /\ Len(signal_writes[k].bytes) = SignalWidth
        /\ FromBigEndian(signal_writes[k].bytes) = k
        /\ signal_writes[k].flushed
        /\ signal_writes[k].polls < k + 1
    /\ (running_frame >= SIGNAL_FRAMES \/ exit_path = "budget")
        => Len(signal_writes) = SIGNAL_FRAMES

C11_Witness ==
    /\ exit_path = "budget"
    /\ Len(signal_writes) = SIGNAL_FRAMES
    /\ running_frame > SIGNAL_FRAMES

\* C15: with every requested redraw delivered, the counter advancing while
\* the handler waits, and no acquisition failure, export failure or close
\* request, the run eventually exports and terminates.
C15_EventuallyExported ==
    <>(pc = "Terminated" /\ exit_path = "budget" /\ Len(exports) = 1)

C15_Witness ==
    /\ pc = "Terminated"
    /\ Len(exports) = 1
    /\ Len(draws) = COLLECT_FRAMES + 1
====
